---- MODULE Spec2Model ----
(***************************************************************************)
(* Model of backend/agents/cooking_assistant.py: the LangGraph pipeline    *)
(* classifier_agent -> decide_next_node -> {researcher_agent, refusal}     *)
(* and the FastAPI handler cooking_endpoint that drives it.                *)
(*                                                                         *)
(* Text is a sequence of one-character strings, so that str.lower() and    *)
(* string comparison are computed character by character.  A message       *)
(* content is [kind, val]: kind "str" for plain text, kind "list" for the  *)
(* list-of-blocks content that AIMessage also admits.                      *)
(***************************************************************************)
EXTENDS Integers, Sequences, FiniteSets, TLC

VARIABLES
    pc,          \* position of the request: which step runs next
    query,       \* query.query of the request being served
    messages,    \* State["messages"] of the running graph
    exc,         \* the exception propagating out of graph.invoke, if any
    raised_in,   \* the step that raised it
    selection,   \* what decide_next_node returned in this request
    agent_calls, \* every agent_executor_researcher.invoke call: its "input" and its outcome
    trace,       \* the graph nodes entered in this request, in order
    log_failed,  \* whether a logger.critical call of this request raised
    responses    \* the HTTP responses produced for this request

vars == <<pc, query, messages, exc, raised_in, selection, agent_calls, trace,
          log_failed, responses>>

----------------------------------------------------------------------------
(* Text constants *)

txt_relevant == <<"r","e","l","e","v","a","n","t">>
txt_irrelevant == <<"i","r">> \o txt_relevant
txt_RELEVANT == <<"R","E","L","E","V","A","N","T">>
txt_Relevant == <<"R","e","l","e","v","a","n","t">>
txt_IRRELEVANT == <<"I","R">> \o txt_RELEVANT
txt_IrRelevant == <<"I","r">> \o txt_Relevant
txt_maybe == <<"m","a","y","b","e","?">>
txt_empty == <<>>
txt_padded == <<" ">> \o txt_relevant
txt_newline == txt_relevant \o <<"\n">>
txt_punctuated == txt_relevant \o <<".">>
txt_egg == <<"e","g","g","?">>
txt_answer == <<"7"," ","m","i","n">>

\* AIMessage(content="Your Query is not related to Cooking.")
RefusalText ==
    <<"Y","o","u","r"," ","Q","u","e","r","y"," ","i","s"," ","n","o","t"," ",
      "r","e","l","a","t","e","d"," ","t","o"," ","C","o","o","k","i","n","g",".">>

StatusOK == 200
StatusError == 500

----------------------------------------------------------------------------
(* Messages *)

StrContent(s) == [kind |-> "str", val |-> s]
ListContent(s) == [kind |-> "list", val |-> s]

HumanMessage(c) == [type |-> "human", content |-> c]
AIMessage(c) == [type |-> "ai", content |-> c]

\* str.lower(), on the characters the model uses
UpperCase == <<"A","B","C","D","E","F","G","H","I","J","K","L","M",
               "N","O","P","Q","R","S","T","U","V","W","X","Y","Z">>
LowerCase == <<"a","b","c","d","e","f","g","h","i","j","k","l","m",
               "n","o","p","q","r","s","t","u","v","w","x","y","z">>

lower_char(c) ==
    IF \E i \in DOMAIN UpperCase : UpperCase[i] = c
    THEN LowerCase[CHOOSE i \in DOMAIN UpperCase : UpperCase[i] = c]
    ELSE c

str_lower(s) == [i \in 1..Len(s) |-> lower_char(s[i])]

\* Annotated[list, add_messages]: a node's update is appended to the list
\* (every message of a request gets an id of its own, so none replaces another)
add_messages(left, right) == left \o right

----------------------------------------------------------------------------
(* Exceptions: str(e) is the message, without the exception's type *)

NoException == [type |-> "none", msg |-> ""]
AttributeError == [type |-> "AttributeError", msg |-> "'list' object has no attribute 'lower'"]
LoggerError == [type |-> "OSError", msg |-> "log sink unavailable"]
LLMErrors == { [type |-> "RateLimitError", msg |-> "rate limit exceeded"],
               [type |-> "AuthenticationError", msg |-> "invalid api key"] }
AgentErrors == { [type |-> "ValueError", msg |-> "agent produced no output"],
                 [type |-> "ConnectionError", msg |-> "rate limit exceeded"] }

str(e) == e.msg

----------------------------------------------------------------------------
(* Inputs *)

Queries == { txt_egg, txt_relevant, txt_empty }

\* what llm.invoke can return: an AIMessage with any content
Replies ==
    { StrContent(t) : t \in { txt_relevant, txt_RELEVANT, txt_Relevant,
                              txt_irrelevant, txt_IRRELEVANT, txt_IrRelevant,
                              txt_maybe, txt_empty, txt_padded, txt_newline,
                              txt_punctuated } }
    \cup { ListContent(txt_relevant) }

\* response["output"] of the agent executor
Answers == { txt_answer, txt_relevant, txt_empty }

LogOutcomes == { "ok", "raise" }

----------------------------------------------------------------------------
(* Router *)

EndsWith(s, t) ==
    /\ Len(s) >= Len(t)
    /\ SubSeq(s, Len(s) - Len(t) + 1, Len(s)) = t

\* faulty variant: substring test instead of equality
decide_next_node_suffix(msgs) ==
    LET last_message == msgs[Len(msgs)] IN
    IF last_message.type = "ai"
    THEN IF last_message.content.kind # "str"
         THEN "AttributeError"
         ELSE IF EndsWith(str_lower(last_message.content.val), txt_relevant)
              THEN "researcher_agent"
              ELSE "refusal"
    ELSE "refusal"

\* faulty variant: comparison without lowercasing
decide_next_node_nolower(msgs) ==
    LET last_message == msgs[Len(msgs)] IN
    IF last_message.type = "ai"
    THEN IF last_message.content.kind # "str"
         THEN "AttributeError"
         ELSE IF last_message.content.val = txt_relevant
              THEN "researcher_agent"
              ELSE "refusal"
    ELSE "refusal"

\* decide_next_node: the selection, or "AttributeError" when .lower() is
\* applied to a content that is not a str
decide_next_node(msgs) ==
    LET last_message == msgs[Len(msgs)] IN
    IF last_message.type = "ai"
    THEN IF last_message.content.kind # "str"
         THEN "AttributeError"
         ELSE IF str_lower(last_message.content.val) = txt_relevant
              THEN "researcher_agent"
              ELSE IF str_lower(last_message.content.val) = txt_irrelevant
                   THEN "refusal"
                   ELSE "refusal"
    ELSE "refusal"

----------------------------------------------------------------------------
(* Graph wiring *)

\* faulty variant: refusal wired to the researcher instead of END
Edge_miswired(node) ==
    CASE node = "START" -> "classifier_agent"
      [] node = "researcher_agent" -> "END"
      [] node = "refusal" -> "researcher_agent"

\* add_edge(START, classifier_agent), add_edge(researcher_agent, END),
\* add_edge(refusal, END)
Edge(node) ==
    CASE node = "START" -> "classifier_agent"
      [] node = "researcher_agent" -> "END"
      [] node = "refusal" -> "END"

\* the path map of add_conditional_edges
PathMap(sel) ==
    CASE sel = "researcher_agent" -> "researcher_agent"
      [] sel = "refusal" -> "refusal"

----------------------------------------------------------------------------
(* Node and handler helpers *)

\* faulty variant: the classifier returns no update
classifier_update_none(reply) == <<>>

\* return {"messages": [response_classifier]}
classifier_update(reply) == <<AIMessage(reply)>>

\* return {"messages": [AIMessage(content=response["output"])]}
researcher_update(output) == <<AIMessage(output)>>

\* return {"messages": [AIMessage(content="Your Query is not related to Cooking.")]}
refusal_update == <<AIMessage(StrContent(RefusalText))>>

\* the outcome of an agent call that raised
Raised == [kind |-> "raise", val |-> <<>>]

\* faulty variant: the last message instead of the second-to-last
user_input_last(msgs) == msgs[Len(msgs)].content

\* state["messages"][-2].content
user_input(msgs) == msgs[Len(msgs) - 1].content

\* faulty variant: the second-to-last message is returned
SuccessResponse_verdict(msgs) ==
    [status |-> StatusOK, response |-> msgs[Len(msgs) - 1].content]

\* return {"response": result["messages"][-1].content}
SuccessResponse(msgs) ==
    [status |-> StatusOK, response |-> msgs[Len(msgs)].content]

\* faulty variant: the exception's type name instead of str(e)
ErrorResponse_type(e) == [status |-> StatusError, detail |-> e.type]

\* HTTPException(status_code=500, detail=str(e))
ErrorResponse(e) == [status |-> StatusError, detail |-> str(e)]

----------------------------------------------------------------------------
(* Actions *)

Init ==
    /\ pc = "idle"
    /\ query = txt_empty
    /\ messages = <<>>
    /\ exc = NoException
    /\ raised_in = "none"
    /\ selection = "none"
    /\ agent_calls = <<>>
    /\ trace = <<>>
    /\ log_failed = FALSE
    /\ responses = <<>>

\* cooking_endpoint is entered: graph.invoke on a fresh one-message state
cooking_endpoint_invoke ==
    /\ pc \in {"idle", "done"}
    /\ \E q \in Queries :
        /\ query' = q
        /\ messages' = add_messages(<<>>, <<HumanMessage(StrContent(q))>>)
    /\ pc' = Edge("START")
    /\ exc' = NoException
    /\ raised_in' = "none"
    /\ selection' = "none"
    /\ agent_calls' = <<>>
    /\ trace' = <<>>
    /\ log_failed' = FALSE
    /\ responses' = <<>>

Raise(node, e) ==
    /\ pc' = "raised"
    /\ exc' = e
    /\ raised_in' = node

\* classifier_agent: log, llm.invoke, log, return the reply as the update
classifier_agent ==
    /\ pc = "classifier_agent"
    /\ trace' = Append(trace, "classifier_agent")
    /\ \E pre \in LogOutcomes, post \in LogOutcomes,
          out \in { [raise |-> FALSE, reply |-> r, err |-> NoException] : r \in Replies }
                  \cup { [raise |-> TRUE, reply |-> StrContent(txt_empty), err |-> e] : e \in LLMErrors } :
        IF pre = "raise"
        THEN /\ Raise("classifier_agent", LoggerError)
             /\ log_failed' = TRUE
             /\ UNCHANGED messages
        ELSE IF out.raise
        THEN /\ Raise("classifier_agent", out.err)
             /\ UNCHANGED <<log_failed, messages>>
        ELSE IF post = "raise"
        THEN /\ Raise("classifier_agent", LoggerError)
             /\ log_failed' = TRUE
             /\ UNCHANGED messages
        ELSE /\ messages' = add_messages(messages, classifier_update(out.reply))
             /\ pc' = "decide_next_node"
             /\ UNCHANGED <<exc, raised_in, log_failed>>
    /\ UNCHANGED <<query, selection, agent_calls, responses>>

\* the conditional edge after classifier_agent
route ==
    /\ pc = "decide_next_node"
    /\ LET sel == decide_next_node(messages) IN
        IF sel = "AttributeError"
        THEN /\ Raise("decide_next_node", AttributeError)
             /\ UNCHANGED selection
        ELSE /\ selection' = sel
             /\ pc' = PathMap(sel)
             /\ UNCHANGED <<exc, raised_in>>
    /\ UNCHANGED <<query, messages, agent_calls, trace, log_failed, responses>>

\* researcher_agent: the agent executor answers messages[-2]
researcher_agent ==
    /\ pc = "researcher_agent"
    /\ trace' = Append(trace, "researcher_agent")
    /\ \/ \E a \in Answers :
            /\ agent_calls' = Append(agent_calls,
                    [input |-> user_input(messages), output |-> StrContent(a)])
            /\ messages' = add_messages(messages, researcher_update(StrContent(a)))
            /\ pc' = Edge("researcher_agent")
            /\ UNCHANGED <<exc, raised_in>>
       \/ \E e \in AgentErrors :
            /\ agent_calls' = Append(agent_calls,
                    [input |-> user_input(messages), output |-> Raised])
            /\ Raise("researcher_agent", e)
            /\ UNCHANGED messages
    /\ UNCHANGED <<query, selection, log_failed, responses>>

\* refusal: the fixed message
refusal ==
    /\ pc = "refusal"
    /\ trace' = Append(trace, "refusal")
    /\ messages' = add_messages(messages, refusal_update)
    /\ pc' = Edge("refusal")
    /\ UNCHANGED <<query, exc, raised_in, selection, agent_calls, log_failed, responses>>

\* graph.invoke returned: the handler returns the last message's content
cooking_endpoint_return ==
    /\ pc = "END"
    /\ responses' = Append(responses, SuccessResponse(messages))
    /\ pc' = "done"
    /\ UNCHANGED <<query, messages, exc, raised_in, selection, agent_calls, trace, log_failed>>

\* faulty variant: the handler retries the pipeline instead of answering
cooking_endpoint_except_retry ==
    /\ pc = "raised"
    /\ pc' = Edge("START")
    /\ messages' = <<HumanMessage(StrContent(query))>>
    /\ exc' = NoException
    /\ raised_in' = "none"
    /\ trace' = <<>>
    /\ agent_calls' = <<>>
    /\ UNCHANGED <<query, selection, log_failed, responses>>

\* except Exception as e: raise HTTPException(500, str(e))
cooking_endpoint_except ==
    /\ pc = "raised"
    /\ responses' = Append(responses, ErrorResponse(exc))
    /\ pc' = "done"
    /\ UNCHANGED <<query, messages, exc, raised_in, selection, agent_calls, trace, log_failed>>

Step ==
    \/ classifier_agent
    \/ route
    \/ researcher_agent
    \/ refusal
    \/ cooking_endpoint_return
    \/ cooking_endpoint_except

Next ==
    \/ cooking_endpoint_invoke
    \/ classifier_agent
    \/ route
    \/ researcher_agent
    \/ refusal
    \/ cooking_endpoint_return
    \/ cooking_endpoint_except

Spec == Init /\ [][Next]_vars

\* a started request is run to its end: every call returns or raises
FairSpec == Init /\ [][Next]_vars /\ WF_vars(Step)

----------------------------------------------------------------------------
(* The router as a pure function: it is applied to every two-message state *)

RouterInputs ==
    { HumanMessage(c) : c \in Replies } \cup { AIMessage(c) : c \in Replies }

RouterInit ==
    /\ pc = "decide_next_node"
    /\ \E q \in Queries, m \in RouterInputs :
        /\ query = q
        /\ messages = <<HumanMessage(StrContent(q)), m>>
    /\ exc = NoException
    /\ raised_in = "none"
    /\ selection = "none"
    /\ agent_calls = <<>>
    /\ trace = <<>>
    /\ log_failed = FALSE
    /\ responses = <<>>

RouterNext == route

RouterSpec == RouterInit /\ [][RouterNext]_vars

----------------------------------------------------------------------------
(* Properties *)

Succeeded == pc = "END" \/ (pc = "done" /\ exc = NoException)

HasVerdict == Len(messages) >= 2

Verdict == messages[2]

TextVerdict == HasVerdict /\ Verdict.content.kind = "str"

RefusalResponse == [status |-> StatusOK, response |-> StrContent(RefusalText)]

\* C1: the research agent is invoked only in a request whose classifier
\* reply is text that, lowercased, is exactly "relevant"; when the Classifier
\* Step returned any other text, the research agent is never invoked and the
\* request ends with the 200 response carrying the refusal text.
C1_ResearchOnlyIfRelevant ==
    /\ (agent_calls # <<>> \/ pc = "researcher_agent") =>
            /\ TextVerdict
            /\ Verdict.type = "ai"
            /\ str_lower(Verdict.content.val) = txt_relevant
    /\ (TextVerdict /\ str_lower(Verdict.content.val) # txt_relevant) =>
            /\ agent_calls = <<>>
            /\ pc \in {"decide_next_node", "refusal", "END", "done"}
            /\ pc \in {"END", "done"} => trace = <<"classifier_agent", "refusal">>
            /\ pc = "done" => responses = <<RefusalResponse>>

C1_Witness ==
    /\ pc = "done"
    /\ TextVerdict
    /\ Verdict.content.val = txt_maybe
    /\ responses = <<RefusalResponse>>
    /\ agent_calls = <<>>

\* C2: a request whose pipeline raised nothing is answered with one 200
\* response whose text is the content of the last message of the final state:
\* the research agent's output on the Research branch, the fixed refusal text
\* on the Refusal branch.  It is the message appended after the verdict, never
\* the verdict message itself.
C2_ResponseIsLastMessage ==
    (pc = "done" /\ exc = NoException) =>
        /\ Len(responses) = 1
        /\ responses[1].status = StatusOK
        /\ responses[1].response = messages[Len(messages)].content
        /\ Len(messages) > 2
        /\ selection \in {"researcher_agent", "refusal"}
        /\ selection = "researcher_agent" =>
                /\ Len(agent_calls) = 1
                /\ responses[1].response = agent_calls[1].output
        /\ selection = "refusal" =>
                responses[1].response = StrContent(RefusalText)

C2_Witness ==
    /\ pc = "done"
    /\ selection = "researcher_agent"
    /\ Verdict.content.val = txt_RELEVANT
    /\ responses = <<[status |-> StatusOK, response |-> StrContent(txt_answer)]>>

\* C3: when llm.invoke or the research agent raises, no later node runs (after
\* a classifier failure neither the router, the research agent nor refusal),
\* no success response is produced, and the request ends with the 500 response
\* whose detail is the exception's description.
C3_FailureIsError500 ==
    (exc \in LLMErrors \cup AgentErrors) =>
        /\ pc \in {"raised", "done"}
        /\ trace # <<>> /\ trace[Len(trace)] = raised_in
        /\ \A i \in DOMAIN responses : responses[i].status # StatusOK
        /\ raised_in = "classifier_agent" =>
                /\ trace = <<"classifier_agent">>
                /\ agent_calls = <<>>
                /\ selection = "none"
                /\ Len(messages) = 1
        /\ raised_in = "researcher_agent" =>
                /\ trace = <<"classifier_agent", "researcher_agent">>
                /\ Len(messages) = 2
        /\ pc = "done" =>
                responses = <<[status |-> StatusError, detail |-> exc.msg]>>

C3_Witness ==
    /\ pc = "done"
    /\ raised_in = "classifier_agent"
    /\ exc.type = "AuthenticationError"
    /\ responses = <<[status |-> StatusError, detail |-> "invalid api key"]>>

\* C4 as stated: after a successful run the state holds exactly 2 messages.
C4_TwoMessages == Succeeded => Len(messages) = 2

\* C4 amended: after a successful run, on either branch, the state holds
\* exactly 3 messages: the original user message, the classifier's verdict
\* message, and one further assistant message (the research answer or the
\* refusal text).
C4_ThreeMessages ==
    Succeeded =>
        /\ Len(messages) = 3
        /\ messages[1] = HumanMessage(StrContent(query))
        /\ messages[2].type = "ai"
        /\ messages[3].type = "ai"
        /\ selection = "refusal" => messages[3].content = StrContent(RefusalText)
        /\ selection = "researcher_agent" =>
                Len(agent_calls) = 1 /\ messages[3].content = agent_calls[1].output

C4_Witness ==
    /\ pc = "done"
    /\ exc = NoException
    /\ selection = "refusal"
    /\ Len(messages) = 3
    /\ Verdict.content.val = txt_irrelevant

\* C5: on a last message with text content, the router selects the Research
\* Step exactly when the message is assistant-authored and its content,
\* lowercased, is "relevant"; on every other one it selects the Refusal Step.
C5_RouterRule ==
    LET last == messages[Len(messages)] IN
    (pc # "decide_next_node" /\ last.content.kind = "str") =>
        /\ selection \in {"researcher_agent", "refusal"}
        /\ pc = selection
        /\ selection = "researcher_agent" <=>
                /\ last.type = "ai"
                /\ last.content.val \in {txt_relevant, txt_RELEVANT, txt_Relevant}
        /\ selection = "researcher_agent" <=>
                /\ last.type = "ai"
                /\ str_lower(last.content.val) = txt_relevant

C5_Witness ==
    /\ selection = "researcher_agent"
    /\ messages[Len(messages)] = AIMessage(StrContent(txt_RELEVANT))

\* C6: the router is total: on every state it returns Research or Refusal
\* and never fails.
C6_RouterTotal ==
    pc # "decide_next_node" =>
        /\ selection \in {"researcher_agent", "refusal"}
        /\ exc = NoException

\* C7: every question passed to the research agent is the content of the
\* user message the handler seeded the state with.
C7_ResearchGetsUserQuery ==
    /\ \A i \in DOMAIN agent_calls : agent_calls[i].input = StrContent(query)
    /\ pc = "researcher_agent" => messages[1] = HumanMessage(StrContent(query))

C7_Witness ==
    /\ Len(agent_calls) = 1
    /\ query = txt_egg
    /\ agent_calls[1].input = StrContent(txt_egg)
    /\ Verdict.content.val = txt_Relevant

\* C8: the nodes of a request run in the order Classifier, then one of
\* Research and Refusal, then END: the classifier is first and runs once,
\* at most one of Research and Refusal runs, once, and nothing runs after it;
\* a run that reaches END ran exactly one of the two.
C8_NodeOrder ==
    /\ trace \in { <<>>, <<"classifier_agent">>,
                   <<"classifier_agent", "researcher_agent">>,
                   <<"classifier_agent", "refusal">> }
    /\ pc \in {"decide_next_node", "researcher_agent", "refusal"} =>
            trace = <<"classifier_agent">>
    /\ pc = "classifier_agent" => trace = <<>>
    /\ Succeeded => Len(trace) = 2 /\ trace[2] = selection

C8_Witness ==
    /\ pc = "done"
    /\ trace = <<"classifier_agent", "researcher_agent">>
    /\ exc = NoException

\* C9: every accepted request eventually ends with exactly one response, a
\* 200 or a 500, having entered at most three nodes; no request ever has two
\* responses.
C9_EveryRequestEnds ==
    /\ [](pc = "classifier_agent" =>
            <>(/\ pc = "done"
               /\ Len(responses) = 1
               /\ responses[1].status \in {StatusOK, StatusError}
               /\ Len(trace) <= 3))
    /\ [](Len(responses) <= 1)

C9_Witness ==
    /\ pc = "done"
    /\ Len(responses) = 1
    /\ responses[1].status = StatusError
    /\ Len(trace) = 2

\* C10: a failure of the classifier's logging does not abort the pipeline:
\* a logger.critical call that failed is never what ends the request.
C10_LoggingFailureDoesNotAbort ==
    log_failed => (pc # "raised" /\ exc # LoggerError)

====
